---------------------------- MODULE Spec2Model ----------------------------
(***************************************************************************)
(* A model of github_readme_generator.py: the fetch pipeline of main       *)
(* (api_get, fetch_profile, fetch_repos, fetch_events), the aggregation    *)
(* functions (compute_language_stats, top_repos, format_event,             *)
(* format_events) and the section renderers assembled by generate_readme.  *)
(*                                                                         *)
(* JSON objects are functions from keys to values whose DOMAIN holds the   *)
(* keys that are present, so dict.get(key, default) is Get below.  Texts   *)
(* the code measures, slices or scans (a repository description, the blog  *)
(* value) are sequences of one-character strings; texts the code only      *)
(* copies are strings.  A rendered string is the sequence of its pieces;    *)
(* a backtick is the piece BT and an emoji is spelled by its name.         *)
(***************************************************************************)
EXTENDS Integers, Sequences, FiniteSets, TLC

VARIABLES pc, profile, repos, events, n, result,
          page, pages, requests, exit_status, output

vars == <<pc, profile, repos, events, n, result,
          page, pages, requests, exit_status, output>>

-----------------------------------------------------------------------------
(* Python values *)

\* The dict literal {} and the list literal [].
EmptyDict == <<>>

\* Python's None where a string-valued field is JSON null.
None == "None"

\* dict.get(key, default)
Get(d, key, default) == IF key \in DOMAIN d THEN d[key] ELSE default

\* Truthiness of a string-valued field: None and "" are falsy.
Truthy(s) == s # None /\ s # ""

Min(a, b) == IF a <= b THEN a ELSE b

Max(a, b) == IF a >= b THEN a ELSE b

\* The slice s[:k]: the first k elements, or all but the last -k when k < 0.
Take(s, k) ==
    IF k >= 0 THEN SubSeq(s, 1, Min(k, Len(s)))
    ELSE SubSeq(s, 1, Max(Len(s) + k, 0))

-----------------------------------------------------------------------------
(* top_repos *)

\* sorted(..., reverse=True) and list.sort(reverse=True) on <<key, value>>
\* pairs: a stable sort, descending by key.  The pairs with the greatest
\* key come first, in the order they had, then the rest, sorted likewise.
RECURSIVE SortDesc(_)
SortDesc(s) ==
    IF Len(s) <= 1 THEN s
    ELSE LET keys == { s[i][1] : i \in 1..Len(s) }
             top  == CHOOSE k \in keys : \A j \in keys : j <= k
         IN  SelectSeq(s, LAMBDA kv : kv[1] = top)
             \o SortDesc(SelectSeq(s, LAMBDA kv : kv[1] # top))

Values(s) == [i \in 1..Len(s) |-> s[i][2]]

\* The sort key of top_repos: r.get("stargazers_count", 0).
Stars(r) == Get(r, "stargazers_count", 0)

ByStars(rs) == [i \in 1..Len(rs) |-> <<Stars(rs[i]), rs[i]>>]

IsOriginal(r) == ~Get(r, "fork", FALSE)

\* top_repos without the filter on the fork flag.
top_repos_keeps_forks(rs, k) == Take(Values(SortDesc(ByStars(rs))), k)

top_repos(rs, k) ==
    LET original == SelectSeq(rs, IsOriginal)
    IN  Take(Values(SortDesc(ByStars(original))), k)

-----------------------------------------------------------------------------
(* compute_language_stats *)

\* A Counter is held as <<key, count>> pairs in the order the keys were
\* first inserted.
CountOf(counter, key) ==
    IF \E i \in 1..Len(counter) : counter[i][1] = key
    THEN counter[CHOOSE i \in 1..Len(counter) : counter[i][1] = key][2]
    ELSE 0

\* The counter c1 after the increments that made c2 from an empty counter.
CounterUpdate(c1, c2) ==
    [i \in 1..Len(c1) |-> <<c1[i][1], c1[i][2] + CountOf(c2, c1[i][1])>>]
    \o SelectSeq(c2, LAMBDA kv : CountOf(c1, kv[1]) = 0)

\* The loop of compute_language_stats over the repositories lo..hi of rs:
\* counter[lang] += 1 for each language that is neither None nor "".
RECURSIVE CountLanguages(_, _, _)
CountLanguages(rs, lo, hi) ==
    IF lo > hi THEN <<>>
    ELSE IF lo = hi
    THEN LET lang == Get(rs[lo], "language", None)
         IN  IF Truthy(lang) THEN << <<lang, 1>> >> ELSE <<>>
    ELSE LET mid == (lo + hi) \div 2
         IN  CounterUpdate(CountLanguages(rs, lo, mid),
                           CountLanguages(rs, mid + 1, hi))

\* sum(counter.values())
RECURSIVE SumCounts(_)
SumCounts(counter) ==
    IF counter = <<>> THEN 0
    ELSE counter[Len(counter)][2] + SumCounts(SubSeq(counter, 1, Len(counter) - 1))

\* The items in insertion order, as a plain items() would give them.
most_common_unsorted(counter) == counter

\* Counter.most_common(): the items sorted by count, descending, stable.
most_common(counter) ==
    Values(SortDesc([i \in 1..Len(counter) |-> <<counter[i][2], counter[i]>>]))

\* count / total * 100 as the exact fraction <<numerator, denominator>>;
\* the rounding of the float division is not modelled.
Percent(count, total) == <<count * 100, total>>

compute_language_stats(rs) ==
    LET counter == CountLanguages(rs, 1, Len(rs))
        total   == SumCounts(counter)
        common  == most_common(counter)
    IN  IF total = 0 THEN <<>>
        ELSE [i \in 1..Len(common) |->
                <<common[i][1], Percent(common[i][2], total)>>]

-----------------------------------------------------------------------------
(* format_event, format_events *)

\* format_event's None: the event yields no line.
NoLine == <<>>

MonthAbbr ==
    <<"Jan", "Feb", "Mar", "Apr", "May", "Jun",
      "Jul", "Aug", "Sep", "Oct", "Nov", "Dec">>

IsLeapYear(y) == (y % 4 = 0 /\ y % 100 # 0) \/ y % 400 = 0

DaysInMonth(y, m) ==
    IF m = 2 THEN (IF IsLeapYear(y) THEN 29 ELSE 28)
    ELSE IF m \in {4, 6, 9, 11} THEN 30 ELSE 31

\* A created_at text is the sequence of the numbers it spells: <<>> is the
\* empty text, <<Y, M, D, h, m, s>> is "Y-M-DTh:m:sZ", and a sequence of
\* any other length is a text of another shape.  strptime accepts the text
\* when it has the shape and names a real date and time.
StrptimeAccepts(created) ==
    /\ Len(created) = 6
    /\ created[1] \in 1..9999
    /\ created[2] \in 1..12
    /\ created[3] \in 1..DaysInMonth(created[1], created[2])
    /\ created[4] \in 0..23
    /\ created[5] \in 0..59
    /\ created[6] \in 0..61

\* strftime("%b %d"): the month's abbreviation and the two digits of the
\* day; <<>> is the empty date_str.
DateStr(created) ==
    IF created # <<>> /\ StrptimeAccepts(created)
    THEN <<MonthAbbr[created[2]], " ", created[3] \div 10, created[3] % 10>>
    ELSE <<>>

\* str.capitalize() on the action values of the event feed.
Capitalize(action) ==
    CASE action = "opened"   -> "Opened"
      [] action = "closed"   -> "Closed"
      [] action = "reopened" -> "Reopened"
      [] action = "CREATED"  -> "Created"
      [] OTHER               -> action

\* The backtick character, which a TLA+ string cannot hold.
BT == "<backtick>"

\* The count taken from the first field that is present, 0 or not.
PushCount_size_first(payload) ==
    LET commits == Get(payload, "commits", <<>>)
    IN  IF commits # <<>> THEN Len(commits)
        ELSE IF "size" \in DOMAIN payload THEN payload["size"]
        ELSE Get(payload, "distinct_size", 1)

\* The commit count of a PushEvent line.
PushCount(payload) ==
    LET commits == Get(payload, "commits", <<>>)
        count   == IF commits # <<>> THEN Len(commits)
                   ELSE Get(payload, "size", 0)
    IN  IF count = 0 THEN Get(payload, "distinct_size", 1) ELSE count

PushUnit(count) == IF count = 1 THEN "commit" ELSE "commits"

format_event(event) ==
    LET etype     == Get(event, "type", "")
        repo_name == Get(Get(event, "repo", EmptyDict), "name", "")
        payload   == Get(event, "payload", EmptyDict)
        date_str  == DateStr(Get(event, "created_at", <<>>))
        action    == Get(payload, "action", "")
        pr_title  == Get(Get(payload, "pull_request", EmptyDict), "title", "")
        title     == Get(Get(payload, "issue", EmptyDict), "title", "")
        ref_type  == Get(payload, "ref_type", "")
        ref       == Get(payload, "ref", "")
        forkee    == Get(Get(payload, "forkee", EmptyDict), "full_name", "")
        count     == PushCount(payload)
    IN  CASE etype = "PushEvent" ->
               <<"Pushed ", count, " ", PushUnit(count), " to ", BT, repo_name,
                 BT, " (", date_str, ")">>
          [] etype = "PullRequestEvent" ->
               <<Capitalize(action), " PR \"", pr_title, "\" in ", BT, repo_name,
                 BT, " (", date_str, ")">>
          [] etype = "IssuesEvent" ->
               <<Capitalize(action), " issue \"", title, "\" in ", BT, repo_name,
                 BT, " (", date_str, ")">>
          [] etype = "WatchEvent" ->
               <<"Starred ", BT, repo_name, BT, " (", date_str, ")">>
          [] etype = "CreateEvent" ->
               IF ref_type = "repository"
               THEN <<"Created repository ", BT, repo_name, BT, " (", date_str, ")">>
               ELSE IF ref # ""
               THEN <<"Created ", ref_type, " ", BT, ref, BT, " in ", BT, repo_name,
                      BT, " (", date_str, ")">>
               ELSE NoLine
          [] etype = "ForkEvent" ->
               <<"Forked ", BT, repo_name, BT, " to ", BT, forkee, BT, " (", date_str, ")">>
          [] etype = "IssueCommentEvent" ->
               <<"Commented on \"", title, "\" in ", BT, repo_name,
                 BT, " (", date_str, ")">>
          [] OTHER -> NoLine

\* The loop of format_events from event i on, lines being the list so far:
\* the line, if any, is appended, then the length is tested against limit.
RECURSIVE FormatEventsFrom(_, _, _, _)
FormatEventsFrom(evs, limit, i, lines) ==
    IF i > Len(evs) THEN lines
    ELSE LET line  == format_event(evs[i])
             lines2 == IF line # NoLine THEN Append(lines, line) ELSE lines
         IN  IF Len(lines2) >= limit THEN lines2
             ELSE FormatEventsFrom(evs, limit, i + 1, lines2)

format_events(evs, limit) == FormatEventsFrom(evs, limit, 1, <<>>)

-----------------------------------------------------------------------------
(* README generation *)

\* A section is the sequence of the lines that "\n".join(lines) joins, a
\* line the sequence of its pieces; the empty string "" is <<>>.
EmptySection == <<>>

\* The line "" that closes a section.
BlankLine == <<"">>

\* sep.join(parts) on sequences: the parts in order with sep between them.
RECURSIVE JoinWith(_, _)
JoinWith(parts, sep) ==
    IF parts = <<>> THEN <<>>
    ELSE IF Len(parts) = 1 THEN parts[1]
    ELSE parts[1] \o sep \o JoinWith(Tail(parts), sep)

RECURSIVE StartsWith(_, _)
StartsWith(s, prefix) ==
    \/ prefix = <<>>
    \/ /\ s # <<>>
       /\ Head(s) = Head(prefix)
       /\ StartsWith(Tail(s), Tail(prefix))

\* The link target of a blog value:
\* blog if blog.startswith("http") else f"https://{blog}".
BlogUrl(blog) ==
    IF StartsWith(blog, <<"h", "t", "t", "p">>) THEN blog
    ELSE <<"h", "t", "t", "p", "s", ":", "/", "/">> \o blog

HeaderHeading == "# Hi there! I'm "

_section_header(p) ==
    LET name     == IF Truthy(Get(p, "name", None)) THEN p["name"]
                    ELSE Get(p, "login", "")
        avatar   == Get(p, "avatar_url", "")
        bio      == Get(p, "bio", "")
        location == Get(p, "location", "")
        company  == Get(p, "company", "")
        blog     == Get(p, "blog", <<>>)
        meta_parts ==
            (IF Truthy(location) THEN << <<":round_pushpin: ", location>> >> ELSE <<>>)
            \o (IF Truthy(company) THEN << <<":office: ", company>> >> ELSE <<>>)
            \o (IF blog # <<>>
                THEN << <<":link: [", blog, "](", BlogUrl(blog), ")">> >> ELSE <<>>)
    IN  << <<HeaderHeading, name, " :wave:\n">> >>
        \o (IF Truthy(avatar)
            THEN << <<"<img src=\"", avatar, "\" width=\"200\" align=\"right\" />\n">> >>
            ELSE <<>>)
        \o (IF Truthy(bio) THEN << <<"**", bio, "**\n">> >> ELSE <<>>)
        \o (IF meta_parts # <<>>
            THEN << JoinWith(meta_parts, <<" | ">>) \o <<"\n">> >> ELSE <<>>)

\* sum(r.get("stargazers_count", 0) for r in repos) over lo..hi of rs
RECURSIVE SumStarsOf(_, _, _)
SumStarsOf(rs, lo, hi) ==
    IF lo > hi THEN 0
    ELSE IF lo = hi THEN Stars(rs[lo])
    ELSE LET mid == (lo + hi) \div 2
         IN  SumStarsOf(rs, lo, mid) + SumStarsOf(rs, mid + 1, hi)

SumStars(rs) == SumStarsOf(rs, 1, Len(rs))

StatsHeading == "## :bar_chart: GitHub Stats\n"

_section_stats(p, rs) ==
    << <<StatsHeading>>,
       <<"| Followers | Following | Public Repos | Total Stars |">>,
       <<"|-----------|-----------|--------------|-------------|">>,
       <<"| ", Get(p, "followers", 0), " | ", Get(p, "following", 0), " | ",
         Get(p, "public_repos", 0), " | ", SumStars(rs), " |\n">> >>

\* The longest description the table shows whole, and the number of its
\* characters kept before the ellipsis when it is longer.
DescLimit == 80

DescKept == 77

\* if len(desc) > 80: desc = desc[:77] + "..."
Truncate(desc) ==
    IF Len(desc) > DescLimit THEN Take(desc, DescKept) \o <<".", ".", ".">>
    ELSE desc

\* desc.replace("|", "\\|")
RECURSIVE EscapePipes(_)
EscapePipes(desc) ==
    IF desc = <<>> THEN <<>>
    ELSE (IF Head(desc) = "|" THEN <<"\\", "|">> ELSE <<Head(desc)>>)
         \o EscapePipes(Tail(desc))

\* The two steps in the other order: the pipes escaped, then the cut.
DescriptionCell_escape_first(desc) == Truncate(EscapePipes(desc))

\* The description cell of a table row.
DescriptionCell(desc) == EscapePipes(Truncate(desc))

TopReposHeading == "## :trophy: Top Repositories\n"

\* The default n of top_repos.
TopN == 6

TopRepoRow(r) ==
    LET lang == IF Truthy(Get(r, "language", None)) THEN r["language"]
                ELSE "<em dash>"
    IN  <<"| [", Get(r, "name", ""), "](", Get(r, "html_url", ""), ") | ",
          DescriptionCell(Get(r, "description", <<>>)), " | ", lang, " | ",
          Stars(r), " | ", Get(r, "forks_count", 0), " |">>

_section_top_repos(rs) ==
    LET top == top_repos(rs, TopN)
    IN  IF top = <<>> THEN EmptySection
        ELSE << <<TopReposHeading>>,
                <<"| Repository | Description | Language | :star: | :fork_and_knife: |">>,
                <<"|------------|-------------|----------|---:|---:|">> >>
             \o [i \in 1..Len(top) |-> TopRepoRow(top[i])]
             \o <<BlankLine>>

\* round() of the fraction a / b, a >= 0, b > 0: to the nearest integer,
\* a tie to the even one.
RoundHalfEven(a, b) ==
    LET q == a \div b
        r == a % b
    IN  IF 2 * r < b THEN q
        ELSE IF 2 * r > b THEN q + 1
        ELSE IF q % 2 = 0 THEN q ELSE q + 1

LanguagesHeading == "## :computer: Language Breakdown\n"

\* One bullet of the breakdown: the bar of round(pct / 5) blocks and the
\* percentage to one decimal place, as <<whole, ".", tenths>>.
LanguageLine(lang, pct) ==
    LET bar_len == RoundHalfEven(pct[1], pct[2] * 5)
        tenths  == RoundHalfEven(pct[1] * 10, pct[2])
    IN  <<"- **", lang, "** ", [i \in 1..bar_len |-> "<full block>"], " ",
          tenths \div 10, ".", tenths % 10, "%">>

_section_languages(rs) ==
    LET stats == compute_language_stats(rs)
    IN  IF stats = <<>> THEN EmptySection
        ELSE << <<LanguagesHeading>> >>
             \o [i \in 1..Len(stats) |-> LanguageLine(stats[i][1], stats[i][2])]
             \o <<BlankLine>>

ActivityHeading == "## :zap: Recent Activity\n"

\* The default limit of format_events.
EventLimit == 10

\* The section without the early return on an empty list.
_section_activity_unguarded(evs) ==
    LET formatted == format_events(evs, EventLimit)
    IN  << <<ActivityHeading>> >>
        \o [i \in 1..Len(formatted) |-> <<"- ", formatted[i]>>]
        \o <<BlankLine>>

_section_activity(evs) ==
    LET formatted == format_events(evs, EventLimit)
    IN  IF formatted = <<>> THEN EmptySection
        ELSE << <<ActivityHeading>> >>
             \o [i \in 1..Len(formatted) |-> <<"- ", formatted[i]>>]
             \o <<BlankLine>>

ConnectHeading == "## :handshake: Connect With Me\n\n"

_section_connect(p) ==
    LET blog    == Get(p, "blog", <<>>)
        twitter == Get(p, "twitter_username", "")
        email   == Get(p, "email", "")
        login   == Get(p, "login", "")
        links ==
            (IF blog # <<>>
             THEN << <<"- :globe_with_meridians: [", blog, "](", BlogUrl(blog), ")">> >>
             ELSE <<>>)
            \o (IF Truthy(twitter)
                THEN << <<"- :bird: [@", twitter, "](https://twitter.com/", twitter, ")">> >>
                ELSE <<>>)
            \o (IF Truthy(email)
                THEN << <<"- :e-mail: [", email, "](mailto:", email, ")">> >>
                ELSE <<>>)
            \o << <<"- :octopus: [", login, "](https://github.com/", login, ")">> >>
    IN  IF links = <<>> THEN EmptySection
        ELSE << <<ConnectHeading>> >> \o links \o << <<"\n">> >>

\* The rule between two sections, and the rule and the credit that end the
\* document.
SeparatorLine == <<"\n---\n\n">>

FooterLine ==
    <<"\n---\n\n",
      "<p align=\"center\"><i>Generated with <a href=\"https://github.com\">GitHub Profile README Generator</a></i></p>\n">>

\* s.strip() is non-empty: a section that is not "" opens with a heading.
NonBlank(section) == section # EmptySection

generate_readme(p, rs, evs) ==
    LET sections == <<_section_header(p),
                      _section_stats(p, rs),
                      _section_top_repos(rs),
                      _section_languages(rs),
                      _section_activity(evs),
                      _section_connect(p)>>
        parts == SelectSeq(sections, NonBlank)
    IN  JoinWith(parts, <<SeparatorLine>>) \o <<FooterLine>>

-----------------------------------------------------------------------------
(* api_get, fetch_repos, main *)

\* What the server, or the network, answers to one request: a JSON body,
\* a body that is not JSON, 404, 403 without a reset header, with one that
\* is a number and with one that is not, another HTTP error, no connection.
Answers ==
    {"200", "200 not JSON", "404", "403", "403 reset", "403 reset not a number",
     "500", "URLError"}

\* api_get with the sys.exit(1) of the 404 branch left out.
api_get_returns_on_404(answer) ==
    CASE answer \in {"200", "404"} -> "return"
      [] answer \in {"403", "403 reset", "500", "URLError"} -> "SystemExit"
      [] OTHER -> "ValueError"

\* How api_get ends on an answer: it returns the parsed body, leaves by
\* sys.exit(1) after its message, or lets the ValueError of json.loads or
\* of int(reset) through.
api_get(answer) ==
    CASE answer = "200" -> "return"
      [] answer \in {"404", "403", "403 reset", "500", "URLError"} -> "SystemExit"
      [] OTHER -> "ValueError"

\* per_page of the repositories request.
PageSize == 100

\* The test with <= for <.
IsLastPage_off_by_one(batch) == Len(batch) <= PageSize

\* The test that ends the loop of fetch_repos after a page was kept.
IsLastPage(batch) == Len(batch) < PageSize

\* main without the except clause.
EventsFailureCaught_never(raised) == FALSE

\* main's handler around fetch_events: except SystemExit.
EventsFailureCaught(raised) == raised = "SystemExit"

-----------------------------------------------------------------------------
(* Bounds and input sets *)

MaxRepos == 3

MaxN == 3

StarValues == {0, 2}

\* A repository object with the keys the aggregation reads; an absent key
\* is left out of the object.
RepoObject(id, fork, stars, lang) ==
    ("name" :> id)
    @@ (IF fork = "absent" THEN EmptyDict ELSE ("fork" :> (fork = "true")))
    @@ (IF stars = -1 THEN EmptyDict ELSE ("stargazers_count" :> stars))
    @@ (IF lang = "absent" THEN EmptyDict ELSE ("language" :> lang))

\* Repository lists of length len; the repository at position i is named i.
RepoListsForTop(len) ==
    { [i \in 1..len |-> RepoObject(i, c[i][1], c[i][2], "absent")] :
        c \in [1..len -> {"absent", "true", "false"} \X (StarValues \cup {-1})] }

-----------------------------------------------------------------------------
(* Specification of top_repos over bounded inputs *)

InitTop ==
    /\ pc = "call"
    /\ \E len \in 0..MaxRepos : repos \in RepoListsForTop(len)
    /\ n \in 0..MaxN
    /\ result = None
    /\ profile = EmptyDict /\ events = <<>>
    /\ page = 0 /\ pages = <<>> /\ requests = <<>>
    /\ exit_status = None /\ output = <<>>

CallTopRepos ==
    /\ pc = "call"
    /\ result' = top_repos(repos, n)
    /\ pc' = "returned"
    /\ UNCHANGED <<profile, repos, events, n, page, pages, requests,
                   exit_status, output>>

NextTop == CallTopRepos

SpecTop == InitTop /\ [][NextTop]_vars

\* The positions of the non-fork repositories of rs.
OriginalAt(rs) == { i \in 1..Len(rs) : ~Get(rs[i], "fork", FALSE) }

\* Position j comes before position i in a stable sort by descending stars.
Before(rs, j, i) ==
    \/ Stars(rs[j]) > Stars(rs[i])
    \/ Stars(rs[j]) = Stars(rs[i]) /\ j < i

\* The position of the k-th non-fork repository in that order.
Ranked(rs, k) ==
    CHOOSE i \in OriginalAt(rs) :
        Cardinality({ j \in OriginalAt(rs) : Before(rs, j, i) }) = k - 1

\* C3: top_repos(repos, n), n >= 0, holds no fork, at most n entries, is
\* sorted non-increasing by stars (an absent count is 0), and is the first n
\* non-fork repositories in stable descending order of stars.
C3_TopRepos ==
    pc = "returned" =>
        /\ \A i \in 1..Len(result) : ~Get(result[i], "fork", FALSE)
        /\ Len(result) <= n
        /\ \A i \in 1..Len(result) - 1 : Stars(result[i]) >= Stars(result[i + 1])
        /\ Len(result) = Min(n, Cardinality(OriginalAt(repos)))
        /\ \A k \in 1..Len(result) : result[k] = repos[Ranked(repos, k)]

\* Two equal-star originals and a fork were passed, and the call returned
\* both originals.
C3_Witness ==
    /\ pc = "returned"
    /\ Len(repos) = 3 /\ n = 2 /\ Len(result) = 2
    /\ \E i \in 1..3 : Get(repos[i], "fork", FALSE)
    /\ Stars(result[1]) = Stars(result[2])


-----------------------------------------------------------------------------
(* Specification of compute_language_stats over bounded inputs *)

MaxLangRepos == 4

LanguageValues == {"absent", None, "", "Python", "Go", "C"}

RepoListsForLang(len) ==
    { [i \in 1..len |-> RepoObject(i, "false", 0, c[i])] :
        c \in [1..len -> LanguageValues] }

InitLang ==
    /\ pc = "call"
    /\ \E len \in 0..MaxLangRepos : repos \in RepoListsForLang(len)
    /\ n = 0
    /\ result = None
    /\ profile = EmptyDict /\ events = <<>>
    /\ page = 0 /\ pages = <<>> /\ requests = <<>>
    /\ exit_status = None /\ output = <<>>

CallComputeLanguageStats ==
    /\ pc = "call"
    /\ result' = compute_language_stats(repos)
    /\ pc' = "returned"
    /\ UNCHANGED <<profile, repos, events, n, page, pages, requests,
                   exit_status, output>>

NextLang == CallComputeLanguageStats

SpecLang == InitLang /\ [][NextLang]_vars

\* The positions of the repositories of rs that have a language.
WithLanguage(rs) ==
    { i \in 1..Len(rs) :
        /\ "language" \in DOMAIN rs[i]
        /\ rs[i]["language"] \notin {None, ""} }

LanguagesOf(rs) == { rs[i]["language"] : i \in WithLanguage(rs) }

ReposIn(rs, lang) == { i \in WithLanguage(rs) : rs[i]["language"] = lang }

FirstSeen(rs, lang) ==
    CHOOSE i \in ReposIn(rs, lang) : \A j \in ReposIn(rs, lang) : i <= j

RECURSIVE SumNumerators(_)
SumNumerators(stats) ==
    IF stats = <<>> THEN 0
    ELSE stats[1][2][1] + SumNumerators(Tail(stats))

\* C4: compute_language_stats returns the empty sequence when no repository
\* has a language; otherwise one pair per distinct language, its percentage
\* the language's count times 100 over the number of repositories that have
\* a language, the percentages summing to 100, ordered by descending count
\* with equal counts in first-encountered order.
C4_LanguageStats ==
    pc = "returned" =>
        LET total == Cardinality(WithLanguage(repos))
        IN  IF total = 0 THEN result = <<>>
            ELSE
              /\ Len(result) = Cardinality(LanguagesOf(repos))
              /\ { result[i][1] : i \in 1..Len(result) } = LanguagesOf(repos)
              /\ \A i \in 1..Len(result) :
                   result[i][2] =
                     <<Cardinality(ReposIn(repos, result[i][1])) * 100, total>>
              /\ SumNumerators(result) = 100 * total
              /\ \A i \in 1..Len(result) - 1 :
                   LET ci == Cardinality(ReposIn(repos, result[i][1]))
                       cj == Cardinality(ReposIn(repos, result[i + 1][1]))
                   IN  \/ ci > cj
                       \/ /\ ci = cj
                          /\ FirstSeen(repos, result[i][1])
                               < FirstSeen(repos, result[i + 1][1])

\* Three languages were counted, the first-encountered one the rarest, and
\* two of them tie.
C4_Witness ==
    /\ pc = "returned"
    /\ Cardinality(WithLanguage(repos)) = 4 /\ Len(result) = 3
    /\ FirstSeen(repos, result[1][1]) > 1
    /\ result[2][2] = result[3][2]

-----------------------------------------------------------------------------
(* Specification of format_event over bounded inputs *)

MaxCommits == 2

MaxSize == 2

\* -1 stands for a key that is absent.
Optional(key, v) == IF v = -1 THEN EmptyDict ELSE (key :> v)

CommitList(k) == [i \in 1..k |-> [sha |-> i]]

PushPayloads ==
    { Optional("size", sz) @@ Optional("distinct_size", ds)
        @@ (IF c = -1 THEN EmptyDict ELSE ("commits" :> CommitList(c))) :
        c \in -1..MaxCommits, sz \in -1..MaxSize, ds \in -1..MaxSize }

OtherEvents ==
    { [type |-> "PullRequestEvent",
       payload |-> [action |-> "opened", pull_request |-> [title |-> "Fix"]]],
      [type |-> "PullRequestEvent", payload |-> EmptyDict],
      [type |-> "IssuesEvent",
       payload |-> [action |-> "closed", issue |-> [title |-> "Bug"]]],
      [type |-> "IssuesEvent", payload |-> [action |-> "reopened"]],
      [type |-> "WatchEvent", payload |-> [action |-> "started"]],
      [type |-> "CreateEvent", payload |-> [ref_type |-> "repository"]],
      [type |-> "CreateEvent", payload |-> [ref_type |-> "branch", ref |-> "main"]],
      [type |-> "CreateEvent", payload |-> [ref_type |-> "tag", ref |-> ""]],
      [type |-> "CreateEvent", payload |-> EmptyDict],
      [type |-> "CreateEvent"],
      [type |-> "ForkEvent", payload |-> [forkee |-> [full_name |-> "me/x"]]],
      [type |-> "IssueCommentEvent", payload |-> [issue |-> [title |-> "Bug"]]],
      [type |-> "GollumEvent", payload |-> EmptyDict],
      [payload |-> EmptyDict] }

CreatedValues ==
    { <<>>, <<2024, 1, 5, 10, 0, 0>>, <<2024, 2, 29, 23, 59, 59>>,
      <<2023, 2, 29, 0, 0, 0>>, <<2024, 13, 1, 0, 0, 0>>, <<2024>> }

\* The event e with its repository and its time of creation; "" and <<>>
\* leave the key out.
Stamped(e, repo_name, created) ==
    e @@ (IF repo_name = "" THEN EmptyDict ELSE ("repo" :> [name |-> repo_name]))
      @@ (IF created = <<>> THEN EmptyDict ELSE ("created_at" :> created))

SingleEvents ==
    { Stamped(e, r, c) :
        e \in OtherEvents \cup { [type |-> "PushEvent", payload |-> p] : p \in PushPayloads },
        r \in {"", "me/app"}, c \in CreatedValues }

InitFormatEvent ==
    /\ pc = "call"
    /\ \E e \in SingleEvents : events = <<e>>
    /\ n = 0
    /\ result = None
    /\ profile = EmptyDict /\ repos = <<>>
    /\ page = 0 /\ pages = <<>> /\ requests = <<>>
    /\ exit_status = None /\ output = <<>>

CallFormatEvent ==
    /\ pc = "call"
    /\ result' = format_event(events[1])
    /\ pc' = "returned"
    /\ UNCHANGED <<profile, repos, events, n, page, pages, requests,
                   exit_status, output>>

NextFormatEvent == CallFormatEvent

SpecFormatEvent == InitFormatEvent /\ [][NextFormatEvent]_vars

IsPush(e) == "type" \in DOMAIN e /\ e["type"] = "PushEvent"

HasCommits(p) == "commits" \in DOMAIN p /\ Len(p["commits"]) > 0

\* C6 as stated: the count printed for a push is the length of the commit
\* list when it is present and non-empty, otherwise the size field,
\* otherwise the distinct-size field, and 1 when none of them is there; the
\* noun is "commit" exactly when the count is 1.
C6_PushCountAsStated ==
    (pc = "returned" /\ IsPush(events[1])) =>
        LET p == events[1]["payload"]
            expected ==
                IF HasCommits(p) THEN Len(p["commits"])
                ELSE IF "size" \in DOMAIN p THEN p["size"]
                ELSE IF "distinct_size" \in DOMAIN p THEN p["distinct_size"]
                ELSE 1
        IN  /\ result[2] = expected
            /\ (result[4] = "commit") <=> (expected = 1)
            /\ result[4] \in {"commit", "commits"}

\* C6 amended: the count printed for a push is the length of the commit list
\* when it is present and non-empty; otherwise the size field when it is
\* present and not 0; otherwise the distinct-size field when it is present
\* (0 included), and 1 when it is absent; the noun is "commit" exactly when
\* the count is 1.
C6_PushCount ==
    (pc = "returned" /\ IsPush(events[1])) =>
        LET p == events[1]["payload"]
            expected ==
                IF HasCommits(p) THEN Len(p["commits"])
                ELSE IF "size" \in DOMAIN p /\ p["size"] # 0 THEN p["size"]
                ELSE IF "distinct_size" \in DOMAIN p THEN p["distinct_size"]
                ELSE 1
        IN  /\ result[2] = expected
            /\ (result[4] = "commit") <=> (expected = 1)
            /\ result[4] \in {"commit", "commits"}

\* A push whose commit list is empty and whose size is 0 was formatted from
\* its distinct-size field, in the plural.
C6_Witness ==
    /\ pc = "returned" /\ IsPush(events[1])
    /\ LET p == events[1]["payload"]
       IN  /\ "commits" \in DOMAIN p /\ p["commits"] = <<>>
           /\ "size" \in DOMAIN p /\ p["size"] = 0
           /\ "distinct_size" \in DOMAIN p /\ p["distinct_size"] = 2
    /\ result[2] = 2 /\ result[4] = "commits"

-----------------------------------------------------------------------------
(* Specification of format_events over bounded inputs *)

MaxEvents == 4

MaxLimit == 3

ListedEvents ==
    { [type |-> "WatchEvent", payload |-> EmptyDict],
      [type |-> "PushEvent", payload |-> [size |-> 2]],
      [type |-> "CreateEvent", payload |-> [ref_type |-> "repository"]],
      [type |-> "CreateEvent", payload |-> [ref_type |-> "branch"]],
      [type |-> "GollumEvent", payload |-> EmptyDict],
      EmptyDict }

\* Event lists of length len; the event at position i is on repository i.
EventLists(len) ==
    { [i \in 1..len |-> c[i] @@ ("repo" :> [name |-> i])] :
        c \in [1..len -> ListedEvents] }

InitEvents ==
    /\ pc = "call"
    /\ \E len \in 0..MaxEvents : events \in EventLists(len)
    /\ n \in 0..MaxLimit
    /\ result = None
    /\ profile = EmptyDict /\ repos = <<>>
    /\ page = 0 /\ pages = <<>> /\ requests = <<>>
    /\ exit_status = None /\ output = <<>>

CallFormatEvents ==
    /\ pc = "call"
    /\ result' = format_events(events, n)
    /\ pc' = "returned"
    /\ UNCHANGED <<profile, repos, events, n, page, pages, requests,
                   exit_status, output>>

NextEvents == CallFormatEvents

SpecEvents == InitEvents /\ [][NextEvents]_vars

\* The non-empty format_event results of evs, in input order.
RECURSIVE LinesOf(_)
LinesOf(evs) ==
    IF evs = <<>> THEN <<>>
    ELSE LET line == format_event(Head(evs))
         IN  (IF line = NoLine THEN <<>> ELSE <<line>>) \o LinesOf(Tail(evs))

\* C5: format_events(events, limit), limit >= 0 (0 included), is the first
\* limit non-empty format_event results in input order, or all of them when
\* there are fewer; it never has more than limit lines.
C5_FormatEvents ==
    pc = "returned" =>
        /\ Len(result) <= n
        /\ result = SubSeq(LinesOf(events), 1, Min(n, Len(LinesOf(events))))

-----------------------------------------------------------------------------
(* Specification of the description cell of _section_top_repos *)

MaxDescLen == 83

\* The places where a description may hold a pipe; its other characters
\* are letters.
PipePlaces == {1, 40, 77, 78, 80, 81}

Description(len, pipes) ==
    [i \in 1..len |-> IF i \in pipes THEN "|" ELSE "a"]

InitDesc ==
    /\ pc = "call"
    /\ \E len \in 0..MaxDescLen, pipes \in SUBSET PipePlaces, named \in BOOLEAN :
         repos = << RepoObject(1, "false", 0, "Go")
                    @@ (IF named \/ len > 0
                        THEN ("description" :> Description(len, pipes))
                        ELSE EmptyDict) >>
    /\ n = 0
    /\ result = None
    /\ profile = EmptyDict /\ events = <<>>
    /\ page = 0 /\ pages = <<>> /\ requests = <<>>
    /\ exit_status = None /\ output = <<>>

CallSectionTopRepos ==
    /\ pc = "call"
    /\ result' = _section_top_repos(repos)
    /\ pc' = "returned"
    /\ UNCHANGED <<profile, repos, events, n, page, pages, requests,
                   exit_status, output>>

NextDesc == CallSectionTopRepos

SpecDesc == InitDesc /\ [][NextDesc]_vars

\* The text a Markdown table shows for a cell: each backslash that escapes
\* a pipe is dropped.
RECURSIVE Shown(_)
Shown(cell) ==
    IF cell = <<>> THEN <<>>
    ELSE IF Len(cell) >= 2 /\ cell[1] = "\\" /\ cell[2] = "|"
         THEN <<"|">> \o Shown(SubSeq(cell, 3, Len(cell)))
         ELSE <<Head(cell)>> \o Shown(Tail(cell))

\* Every pipe of the cell has a backslash before it.
PipesEscaped(cell) ==
    \A i \in 1..Len(cell) : cell[i] = "|" => (i > 1 /\ cell[i - 1] = "\\")

\* C8: in the Top Repositories table a description longer than 80
\* characters shows as its first 77 characters and a 3-character ellipsis,
\* one of 80 characters or fewer shows whole; the cut is made on the
\* original text, before its pipes are escaped.
C8_DescriptionCell ==
    pc = "returned" =>
        LET desc == Get(repos[1], "description", <<>>)
            cell == result[4][6]
        IN  /\ PipesEscaped(cell)
            /\ Len(desc) <= 80 => Shown(cell) = desc
            /\ Len(desc) > 80 =>
                 /\ Len(Shown(cell)) = 80
                 /\ SubSeq(Shown(cell), 1, 77) = SubSeq(desc, 1, 77)
                 /\ SubSeq(Shown(cell), 78, 80) = <<".", ".", ".">>

\* A description of exactly 81 characters with a pipe at place 77 was
\* cut: the cell holds 77 characters, the backslash and the ellipsis.
C8_Witness ==
    /\ pc = "returned"
    /\ LET desc == Get(repos[1], "description", <<>>)
       IN  Len(desc) = 81 /\ desc[77] = "|"
    /\ Len(result[4][6]) = 81
    /\ SubSeq(result[4][6], 77, 81) = <<"\\", "|", ".", ".", ".">>

-----------------------------------------------------------------------------
(* Specification of the blog link of _section_header and _section_connect *)

BlogPrefixes ==
    { <<>>, <<"h", "t", "t", "p">>, <<"h", "t", "t", "p", "s">>,
      <<"f", "t", "p">>, <<"h", "t", "t">> }

BlogRests ==
    { <<>>, <<"b", "i", "n", ".", "o", "r", "g">>, <<"x", ".", "i", "o">> }

\* Stored blog values: with a scheme (http://x.io, https://x.io,
\* ftp://x.io), without one (x.io, httpbin.org, http), and the empty one.
BlogValues ==
    { p \o sep \o r :
        p \in BlogPrefixes, sep \in { <<>>, <<":", "/", "/">> }, r \in BlogRests }

InitBlog ==
    /\ pc = "call"
    /\ \E blog \in BlogValues, location \in {"", "Paris"}, company \in {"", None, "ACME"},
          stored \in BOOLEAN :
         profile = [login |-> "alice", location |-> location, company |-> company]
                   @@ (IF stored \/ blog # <<>> THEN ("blog" :> blog) ELSE EmptyDict)
    /\ n = 0
    /\ result = None
    /\ repos = <<>> /\ events = <<>>
    /\ page = 0 /\ pages = <<>> /\ requests = <<>>
    /\ exit_status = None /\ output = <<>>

CallProfileSections ==
    /\ pc = "call"
    /\ result' = <<_section_header(profile), _section_connect(profile)>>
    /\ pc' = "returned"
    /\ UNCHANGED <<profile, repos, events, n, page, pages, requests,
                   exit_status, output>>

NextBlog == CallProfileSections

SpecBlog == InitBlog /\ [][NextBlog]_vars

Letters == {"f", "h", "p", "s", "t", "b", "i", "n", "o", "r", "g", "x"}

\* The text opens with a URL scheme: letters, then "://".
HasScheme(s) ==
    \E k \in 2..Len(s) - 2 :
        /\ \A i \in 1..k - 1 : s[i] \in Letters
        /\ s[k] = ":" /\ s[k + 1] = "/" /\ s[k + 2] = "/"

\* C9: for every non-empty stored blog value the link target in the Header
\* metadata line and in the Connect section is the value unchanged when it
\* has a URL scheme, and the value after "https://" when it has none (a
\* scheme-less value that begins with the letters "http" included).
C9_BlogLinkTarget ==
    (pc = "returned" /\ Get(profile, "blog", <<>>) # <<>>) =>
        LET blog     == profile["blog"]
            expected == IF HasScheme(blog) THEN blog
                        ELSE <<"h", "t", "t", "p", "s", ":", "/", "/">> \o blog
            meta     == result[1][Len(result[1])]
        IN  /\ meta[Len(meta) - 2] = expected
            /\ result[2][2][4] = expected

-----------------------------------------------------------------------------
(* Specification of generate_readme over bounded inputs *)

MaxReadmeRepos == 2

MaxReadmeEvents == 2

ReadmeProfiles ==
    { [login |-> "alice"],
      [login |-> "alice", name |-> None, bio |-> "", followers |-> 10,
       following |-> 2, public_repos |-> 3],
      [login |-> "alice", name |-> "Alice", bio |-> "Hello",
       avatar_url |-> "https://a/1.png", location |-> "Paris",
       blog |-> <<"x", ".", "i", "o">>, twitter_username |-> "al",
       email |-> "a@x.io", followers |-> 1],
      EmptyDict }

ReadmeRepoLists(len) ==
    { [i \in 1..len |-> RepoObject(i, c[i][1], i, c[i][2])] :
        c \in [1..len -> {"true", "false"} \X {"absent", None, "Go"}] }

ReadmeEventLists(len) ==
    { [i \in 1..len |-> c[i] @@ ("repo" :> [name |-> "me/app"])] :
        c \in [1..len -> { [type |-> "WatchEvent"],
                           [type |-> "CreateEvent", payload |-> [ref |-> ""]],
                           [type |-> "GollumEvent"] }] }

InitReadme ==
    /\ pc = "call"
    /\ profile \in ReadmeProfiles
    /\ \E len \in 0..MaxReadmeRepos : repos \in ReadmeRepoLists(len)
    /\ \E len \in 0..MaxReadmeEvents : events \in ReadmeEventLists(len)
    /\ n = 0
    /\ result = None
    /\ page = 0 /\ pages = <<>> /\ requests = <<>>
    /\ exit_status = None /\ output = <<>>

CallGenerateReadme ==
    /\ pc = "call"
    /\ result' = generate_readme(profile, repos, events)
    /\ pc' = "returned"
    /\ UNCHANGED <<profile, repos, events, n, page, pages, requests,
                   exit_status, output>>

NextReadme == CallGenerateReadme

SpecReadme == InitReadme /\ [][NextReadme]_vars

SectionHeadings ==
    <<HeaderHeading, StatsHeading, TopReposHeading, LanguagesHeading,
      ActivityHeading, ConnectHeading>>

\* What a line of a document is: a section's heading, the rule between
\* sections, the footer, or content.
Mark(line) ==
    IF line = SeparatorLine THEN "rule"
    ELSE IF line = FooterLine THEN "footer"
    ELSE IF \E k \in 1..6 : line[1] = SectionHeadings[k] THEN line[1]
    ELSE "content"

\* The marks of a document's lines that are not content, in order.
RECURSIVE Skeleton(_)
Skeleton(doc) ==
    IF doc = <<>> THEN <<>>
    ELSE (IF Mark(Head(doc)) = "content" THEN <<>> ELSE <<Mark(Head(doc))>>)
         \o Skeleton(Tail(doc))

HasOriginal(rs) == \E i \in 1..Len(rs) : ~Get(rs[i], "fork", FALSE)

HasLanguage(rs) == WithLanguage(rs) # {}

HasEventLine(evs) == \E i \in 1..Len(evs) : format_event(evs[i]) # NoLine

\* The skeleton the inputs call for: the headings of the sections that
\* have content, in the fixed order, a rule between two of them, then the
\* footer.
RECURSIVE Ruled(_)
Ruled(heads) ==
    IF Len(heads) <= 1 THEN heads
    ELSE <<Head(heads), "rule">> \o Ruled(Tail(heads))

ExpectedSkeleton(rs, evs) ==
    Ruled(<<HeaderHeading, StatsHeading>>
          \o (IF HasOriginal(rs) THEN <<TopReposHeading>> ELSE <<>>)
          \o (IF HasLanguage(rs) THEN <<LanguagesHeading>> ELSE <<>>)
          \o (IF HasEventLine(evs) THEN <<ActivityHeading>> ELSE <<>>)
          \o <<ConnectHeading>>)
    \o <<"footer">>

\* The opening of the first content line under each heading that has one.
FirstContent(doc, i) ==
    CASE doc[i][1] = TopReposHeading  -> i + 3 <= Len(doc) /\ doc[i + 3][1] = "| ["
      [] doc[i][1] = LanguagesHeading -> i + 1 <= Len(doc) /\ doc[i + 1][1] = "- **"
      [] doc[i][1] = ActivityHeading  -> i + 1 <= Len(doc) /\ doc[i + 1][1] = "- "
      [] doc[i][1] = ConnectHeading   -> i + 1 <= Len(doc) /\ doc[i + 1][1] \in
                                           {"- :globe_with_meridians: [", "- :bird: [@",
                                            "- :e-mail: [", "- :octopus: ["}
      [] OTHER -> TRUE

\* C7: the document is the non-empty sections in the order Header, Stats,
\* Top Repositories, Language Breakdown, Recent Activity, Connect, with the
\* rule between them and the footer after them; Top Repositories is there
\* only with a non-fork repository, Language Breakdown only with a
\* repository that has a language, Recent Activity only with an event that
\* formats to a line, and no heading is left without content.
C7_Document ==
    pc = "returned" =>
        /\ Skeleton(result) = ExpectedSkeleton(repos, events)
        /\ \A i \in 1..Len(result) : FirstContent(result, i)

\* No event formats to a line, a repository is not a fork and none has a
\* language: Recent Activity and Language Breakdown are left out and Top
\* Repositories is there.
C7_Witness ==
    /\ pc = "returned"
    /\ Len(events) = 2 /\ ~HasEventLine(events)
    /\ HasOriginal(repos) /\ ~HasLanguage(repos)
    /\ Skeleton(result) =
         <<HeaderHeading, "rule", StatsHeading, "rule", TopReposHeading, "rule",
           ConnectHeading, "footer">>

-----------------------------------------------------------------------------
(* Specification of main: the run of the program against the API *)

MaxPages == 2

\* A page of len repositories, numbered on from the pages before it:
\* either originals of several languages and star counts, or forks.
Batch(p, len, kind) ==
    [i \in 1..len |->
        IF kind = "forks"
        THEN RepoObject((p - 1) * PageSize + i, "true", 1, None)
        ELSE RepoObject((p - 1) * PageSize + i, "false", i % 3,
                        IF i % 2 = 0 THEN "Go" ELSE "Python")]

\* The pages the API may answer page p with; a full page only while the
\* model's bound on the number of pages allows another one.
Batches(p) ==
    { Batch(p, len, kind) :
        len \in {0, 1, PageSize - 1} \cup (IF p < MaxPages THEN {PageSize} ELSE {}),
        kind \in {"originals", "forks"} }

\* The profiles and the event feeds the API may answer with.
MainProfiles ==
    { [login |-> "alice"],
      [login |-> "alice", name |-> "Alice", bio |-> "Hello",
       blog |-> <<"x", ".", "i", "o">>, followers |-> 1] }

MainEventLists == ReadmeEventLists(0) \cup ReadmeEventLists(1)

RECURSIVE Flatten(_)
Flatten(batches) ==
    IF batches = <<>> THEN <<>>
    ELSE Flatten(SubSeq(batches, 1, Len(batches) - 1)) \o batches[Len(batches)]

InitMain ==
    /\ pc = "fetch_profile"
    /\ profile = EmptyDict /\ repos = <<>> /\ events = <<>>
    /\ n = 0
    /\ result = None
    /\ page = 0 /\ pages = <<>> /\ requests = <<>>
    /\ exit_status = None /\ output = <<>>

\* An exception no handler catches ends the process: SystemExit(1) with
\* status 1, any other with a traceback and status 1.
Abort ==
    /\ pc' = "exited"
    /\ exit_status' = 1

\* profile = fetch_profile(username, token)
FetchProfile ==
    /\ pc = "fetch_profile"
    /\ \E answer \in Answers :
         /\ requests' = Append(requests, [endpoint |-> "profile", answer |-> answer])
         /\ IF api_get(answer) = "return"
            THEN /\ profile' \in MainProfiles
                 /\ pc' = "fetch_repos"
                 /\ page' = 1
                 /\ UNCHANGED exit_status
            ELSE /\ Abort
                 /\ UNCHANGED <<profile, page>>
    /\ UNCHANGED <<repos, events, n, result, pages, output>>

\* One turn of the loop of fetch_repos: the request for the page, then the
\* tests that end the loop.
FetchReposPage ==
    /\ pc = "fetch_repos"
    /\ \E answer \in Answers :
         /\ requests' = Append(requests,
                [endpoint |-> "repos", per_page |-> PageSize, page |-> page,
                 answer |-> answer])
         /\ IF api_get(answer) = "return"
            THEN \E batch \in Batches(page) :
                   /\ pages' = Append(pages, batch)
                   /\ IF batch = <<>>
                      THEN /\ pc' = "fetch_events"
                           /\ UNCHANGED <<repos, page>>
                      ELSE /\ repos' = repos \o batch
                           /\ IF IsLastPage(batch)
                              THEN /\ pc' = "fetch_events"
                                   /\ UNCHANGED page
                              ELSE /\ pc' = "fetch_repos"
                                   /\ page' = page + 1
                   /\ UNCHANGED exit_status
            ELSE /\ Abort
                 /\ UNCHANGED <<repos, page, pages>>
    /\ UNCHANGED <<profile, events, n, result, output>>

\* The try statement of main around fetch_events.
FetchEvents ==
    /\ pc = "fetch_events"
    /\ \E answer \in Answers :
         /\ requests' = Append(requests, [endpoint |-> "events", answer |-> answer])
         /\ IF api_get(answer) = "return"
            THEN /\ events' \in MainEventLists
                 /\ pc' = "generate"
                 /\ UNCHANGED exit_status
            ELSE IF EventsFailureCaught(api_get(answer))
            THEN /\ events' = <<>>
                 /\ pc' = "generate"
                 /\ UNCHANGED exit_status
            ELSE /\ Abort
                 /\ UNCHANGED events
    /\ UNCHANGED <<profile, repos, n, result, page, pages, output>>

\* readme = generate_readme(profile, repos, events)
GenerateReadme ==
    /\ pc = "generate"
    /\ result' = generate_readme(profile, repos, events)
    /\ pc' = "write"
    /\ UNCHANGED <<profile, repos, events, n, page, pages, requests,
                   exit_status, output>>

\* The readme is written to args.output and main returns.
WriteOutput ==
    /\ pc = "write"
    /\ output' = <<result>>
    /\ pc' = "done"
    /\ exit_status' = 0
    /\ UNCHANGED <<profile, repos, events, n, result, page, pages, requests>>

NextMain ==
    \/ FetchProfile
    \/ FetchReposPage
    \/ FetchEvents
    \/ GenerateReadme
    \/ WriteOutput

SpecMain == InitMain /\ [][NextMain]_vars

RequestsTo(endpoint) ==
    SelectSeq(requests, LAMBDA r : r["endpoint"] = endpoint)

\* The events request was made and api_get left it by sys.exit.
EventsFetchExited ==
    \E i \in 1..Len(requests) :
        /\ requests[i]["endpoint"] = "events"
        /\ requests[i]["answer"] \in {"404", "403", "403 reset", "500", "URLError"}

\* C1: when the profile and every repository page were fetched and api_get
\* exits on the events request (404, 403, another HTTP error, a network
\* error), the run does not abort: it goes on with no events, writes the
\* document, which has no Recent Activity heading, and ends normally.
C1_EventsFailureIsSoft ==
    EventsFetchExited =>
        /\ \A i \in 1..Len(requests) - 1 : requests[i]["answer"] = "200"
        /\ pc \in {"generate", "write", "done"}
        /\ events = <<>>
        /\ pc # "done" => output = <<>>
        /\ pc \in {"write", "done"} =>
             \A i \in 1..Len(result) : result[i][1] # ActivityHeading
        /\ pc = "done" =>
             /\ exit_status = 0
             /\ output = <<result>>
             /\ result = generate_readme(profile, repos, <<>>)

\* The run ended normally after a full page, a short page and a 403 on the
\* events request.
C1_Witness ==
    /\ pc = "done"
    /\ Len(pages) = 2
    /\ requests[Len(requests)] = [endpoint |-> "events", answer |-> "403 reset"]
    /\ Len(output) = 1

\* C2: a failure of the profile fetch or of a repository page fetch ends
\* the run at once with a non-zero status: the failing request is the last
\* one made (no retry, no next page, no events fetch) and the document is
\* never written.
C2_FetchFailureIsFatal ==
    \A i \in 1..Len(requests) :
        (requests[i]["endpoint"] \in {"profile", "repos"}
           /\ requests[i]["answer"] # "200") =>
            /\ i = Len(requests)
            /\ pc = "exited"
            /\ exit_status # 0
            /\ output = <<>>
            /\ ~ENABLED NextMain

\* The second repository page was refused with 404 after a full first page.
C2_Witness ==
    /\ pc = "exited"
    /\ Len(requests) = 3
    /\ requests[3] = [endpoint |-> "repos", per_page |-> PageSize, page |-> 2,
                      answer |-> "404"]
    /\ Len(repos) = PageSize

\* C10: fetch_repos asks for pages 1, 2, 3, ... in order, 100 a page, and
\* stops at the first page that is empty or has fewer than 100 entries: no
\* page is asked for after it, the result is the pages received, in order,
\* up to and including it, and the loop is left as soon as it arrives.
C10_Pagination ==
    LET asked == RequestsTo("repos")
    IN  /\ \A i \in 1..Len(asked) :
             asked[i]["page"] = i /\ asked[i]["per_page"] = 100
        /\ Len(pages) <= Len(asked)
        /\ \A i \in 1..Len(pages) : asked[i]["answer"] = "200"
        /\ \A i \in 1..Len(pages) :
             IF Len(pages[i]) < 100
             THEN Len(asked) = i /\ pc # "fetch_repos"
             ELSE pc = "fetch_repos" \/ Len(asked) > i
        /\ pc \in {"fetch_repos", "fetch_events", "generate", "write", "done"} =>
             repos = Flatten(pages)
        /\ pc \in {"fetch_events", "generate", "write", "done"} =>
             /\ Len(pages) = Len(asked)
             /\ Len(pages[Len(pages)]) < 100

\* Two pages were asked for, the first came full and the second short, and
\* fetch_repos returned both.
C10_Witness ==
    /\ pc = "fetch_events"
    /\ Len(pages) = 2
    /\ Len(pages[1]) = PageSize /\ Len(pages[2]) = PageSize - 1
    /\ Len(repos) = 2 * PageSize - 1

=============================================================================
